---- MODULE Spec2Model ----
(***************************************************************************)
(* Model of convert_health_data.py: three parsers (export.xml,             *)
(* export_cda.xml, electrocardiograms/ecg_*.csv) that append to one shared *)
(* records list guarded by one shared seen_keys set, and the driver main() *)
(* that calls them in a fixed order, sorts by startDate and writes a CSV.  *)
(*                                                                         *)
(* Python strings are TLA+ strings; Python's None is the reserved value    *)
(* None, which no input string equals.  An XML element is a record of its  *)
(* attributes, an absent attribute being None (what elem.get(name)         *)
(* returns); elem.get(name, default) is Get.                               *)
(***************************************************************************)
EXTENDS Integers, Sequences, FiniteSets, TLC

VARIABLES
    pc,           \* position of the running code
    ret,          \* where the running parser returns to
    records,      \* the shared list of record dicts
    seen_keys,    \* the shared set of identity tuples
    total_count,  \* main's total_count
    count,        \* the running parser's count
    entry_len,    \* len(records) when the running parser was entered
    retval,       \* value returned by the last parser call that returned
    ecg_todo,     \* session files of the glob not yet visited
    ecg_done,     \* session files of the glob already visited
    sorted,       \* records.sort has run
    written,      \* the output file has been written
    output,       \* data rows of the output file
    origin,       \* history: the source element kind of each entry of records
    last,         \* history: the element or file handled by the last step
    events,       \* history: elements and files consumed so far
    calls,        \* history: parser calls made by the free-order caller
    cda_error,    \* history: count of the clinical-document call when its
                  \* parse error was caught, -1 while none was
    arg,          \* argument of the function under test
    result        \* its result

vars == <<pc, ret, records, seen_keys, total_count, count, entry_len, retval,
          ecg_todo, ecg_done, sorted, written, output, origin, last, events,
          calls, cda_error, arg, result>>

(* ---------------------------- bounds ----------------------------------- *)

\* elements / observations / session files consumed in one run
MaxEvents == 3
\* parser calls made by the free-order caller
MaxCalls == 2
\* session files in the electrocardiograms directory
MaxFiles == 2

(* ------------------------ values and strings --------------------------- *)

None == "<None>"

TARGET_TYPES ==
    { "HKQuantityTypeIdentifierStepCount",
      "HKQuantityTypeIdentifierActiveEnergyBurned",
      "HKQuantityTypeIdentifierHeartRate",
      "HKQuantityTypeIdentifierRestingHeartRate",
      "HKQuantityTypeIdentifierHeartRateVariabilitySDNN",
      "HKCategoryTypeIdentifierSleepAnalysis",
      "HKQuantityTypeIdentifierBodyMass",
      "HKQuantityTypeIdentifierBodyFatPercentage",
      "HKQuantityTypeIdentifierVO2Max",
      "HKQuantityTypeIdentifierRespiratoryRate",
      "HKCategoryTypeIdentifierAppleStandHour" }

\* no filtering on the type
InTargetTypesAny(t) == TRUE

\* `record_type in TARGET_TYPES`
InTargetTypes(t) == t \in TARGET_TYPES

\* elem.get(name, default)
Get(elem, name, default) == IF elem[name] = None THEN default ELSE elem[name]

\* truthiness of a str-or-None value (`if duration:`, `if not date_str:`)
Truthy(s) == s # None /\ s # ""

Ch(s, i) == SubSeq(s, i, i)

Digits == {"0", "1", "2", "3", "4", "5", "6", "7", "8", "9"}

DigitVal(c) ==
    CASE c = "0" -> 0 [] c = "1" -> 1 [] c = "2" -> 2 [] c = "3" -> 3
      [] c = "4" -> 4 [] c = "5" -> 5 [] c = "6" -> 6 [] c = "7" -> 7
      [] c = "8" -> 8 [] c = "9" -> 9

DigitStr(n) ==
    CASE n = 0 -> "0" [] n = 1 -> "1" [] n = 2 -> "2" [] n = 3 -> "3"
      [] n = 4 -> "4" [] n = 5 -> "5" [] n = 6 -> "6" [] n = 7 -> "7"
      [] n = 8 -> "8" [] n = 9 -> "9"

\* code points of the characters that occur in the startDate strings
CodePoint(c) ==
    CASE c = " " -> 32 [] c = "+" -> 43 [] c = "-" -> 45
      [] c \in Digits -> 48 + DigitVal(c)
      [] c = ":" -> 58

RECURSIVE StrLessFrom(_, _, _)
StrLessFrom(a, b, i) ==
    IF i > Len(b) THEN FALSE
    ELSE IF i > Len(a) THEN TRUE
    ELSE IF Ch(a, i) = Ch(b, i) THEN StrLessFrom(a, b, i + 1)
    ELSE CodePoint(Ch(a, i)) < CodePoint(Ch(b, i))

\* Python's a < b on str: lexicographic by code point
StrLess(a, b) == StrLessFrom(a, b, 1)

(* ------------------------- format_cda_date ----------------------------- *)

AllDigits(s) == \A i \in 1..Len(s) : Ch(s, i) \in Digits

Num2(s) == 10 * DigitVal(Ch(s, 1)) + DigitVal(Ch(s, 2))

Num4(s) == 100 * Num2(SubSeq(s, 1, 2)) + Num2(SubSeq(s, 3, 4))

IsLeap(y) == (y % 4 = 0 /\ y % 100 # 0) \/ y % 400 = 0

DaysInMonth(y, m) ==
    IF m = 2 THEN (IF IsLeap(y) THEN 29 ELSE 28)
    ELSE IF m \in {4, 6, 9, 11} THEN 30 ELSE 31

\* The directive patterns of strptime for a 14-character string: every
\* directive has to take its full width (4,2,2,2,2,2) or data remains.
\* %d also accepts a space followed by a digit 1-9.
MatchY(s) == AllDigits(s)
Matchm(s) == AllDigits(s) /\ Num2(s) \in 1..12
Matchd(s) == \/ AllDigits(s) /\ Num2(s) \in 1..31
             \/ Ch(s, 1) = " " /\ Ch(s, 2) \in Digits \ {"0"}
MatchH(s) == AllDigits(s) /\ Num2(s) \in 0..23
MatchM(s) == AllDigits(s) /\ Num2(s) \in 0..59
MatchS(s) == AllDigits(s) /\ Num2(s) \in 0..61

DayVal(s) == IF Ch(s, 1) = " " THEN DigitVal(Ch(s, 2)) ELSE Num2(s)

ValueError == [ok |-> FALSE, Y |-> 0, m |-> 0, d |-> 0, H |-> 0, M |-> 0, S |-> 0]

\* datetime.strptime(base, '%Y%m%d%H%M%S') for a 14-character base
strptime(base) ==
    LET y  == SubSeq(base, 1, 4)
        mo == SubSeq(base, 5, 6)
        d  == SubSeq(base, 7, 8)
        h  == SubSeq(base, 9, 10)
        mi == SubSeq(base, 11, 12)
        s  == SubSeq(base, 13, 14)
    IN  IF ~(MatchY(y) /\ Matchm(mo) /\ Matchd(d) /\ MatchH(h) /\ MatchM(mi) /\ MatchS(s))
        THEN ValueError
        ELSE IF \/ Num4(y) < 1
                \/ DayVal(d) > DaysInMonth(Num4(y), Num2(mo))
                \/ Num2(s) > 59
        THEN ValueError
        ELSE [ok |-> TRUE, Y |-> Num4(y), m |-> Num2(mo), d |-> DayVal(d),
              H |-> Num2(h), M |-> Num2(mi), S |-> Num2(s)]

Pad2(n) == DigitStr(n \div 10) \o DigitStr(n % 10)

Pad4(n) == Pad2(n \div 100) \o Pad2(n % 100)

\* dt.strftime('%Y-%m-%d %H:%M:%S'), years 1000..9999
strftime(dt) ==
    Pad4(dt.Y) \o "-" \o Pad2(dt.m) \o "-" \o Pad2(dt.d) \o " " \o
    Pad2(dt.H) \o ":" \o Pad2(dt.M) \o ":" \o Pad2(dt.S)

format_cda_date(date_str) ==
    IF ~Truthy(date_str) THEN ""
    ELSE IF Len(date_str) >= 14
         THEN LET base == SubSeq(date_str, 1, 14)
                  tz   == IF Len(date_str) > 14
                          THEN SubSeq(date_str, 15, Len(date_str)) ELSE ""
                  dt   == strptime(base)
              IN  IF dt.ok
                  THEN (IF tz # "" THEN strftime(dt) \o " " \o tz ELSE strftime(dt))
                  ELSE date_str
         ELSE date_str

(* ----------------------- workout value (xml) --------------------------- *)

\* joining with "," instead of "; "
JoinPartsComma(parts) ==
    IF Len(parts) = 0 THEN ""
    ELSE IF Len(parts) = 1 THEN parts[1]
    ELSE parts[1] \o "," \o parts[2]

\* '; '.join(value_parts) if value_parts else ''
JoinParts(parts) ==
    IF Len(parts) = 0 THEN ""
    ELSE IF Len(parts) = 1 THEN parts[1]
    ELSE parts[1] \o "; " \o parts[2]

workout_value(elem) ==
    LET duration      == Get(elem, "duration", "")
        duration_unit == Get(elem, "durationUnit", "min")
        total_energy  == Get(elem, "totalEnergyBurned", "")
        energy_unit   == Get(elem, "totalEnergyBurnedUnit", "Cal")
        p1 == IF Truthy(duration)
              THEN <<"duration:" \o duration \o " " \o duration_unit>> ELSE <<>>
        p2 == IF Truthy(total_energy)
              THEN p1 \o <<"calories:" \o total_energy \o " " \o energy_unit>> ELSE p1
    IN  JoinParts(p2)

(* ----------------------------- inputs ---------------------------------- *)

HR == "HKQuantityTypeIdentifierHeartRate"
Height == "HKQuantityTypeIdentifierHeight"
Running == "HKWorkoutActivityTypeRunning"

D1 == "2023-06-15 14:30:00"
D2 == "2023-01-02 08:00:00"

Record(t, sd, v) ==
    [type |-> t, creationDate |-> D1, startDate |-> sd, endDate |-> D1, value |-> v]

\* <Record .../> elements of export.xml
RecordElems ==
    { Record(HR, D1, "72"), Record(HR, D2, None),
      Record(Height, D1, "72"), Record(None, D1, "72") }

Workout(t, d, du, e, eu) ==
    [workoutActivityType |-> t, creationDate |-> D1, startDate |-> D1,
     endDate |-> D1, duration |-> d, durationUnit |-> du,
     totalEnergyBurned |-> e, totalEnergyBurnedUnit |-> eu]

\* <Workout .../> elements of export.xml
WorkoutElems ==
    { Workout(Running, "30", "min", "250", "Cal"),
      Workout(Running, "30", None, None, None),
      Workout(Running, None, None, "250", "kcal"),
      Workout(Height, "", "min", None, None),
      Workout(None, None, None, None, None) }

Absent == [present |-> FALSE, text |-> None]
Elem(t) == [present |-> TRUE, text |-> t]

Observation(hasText, type, value, hasTime, low, high) ==
    [text |-> hasText, type |-> type, value |-> value,
     effectiveTime |-> hasTime, low |-> low, high |-> high]

\* <observation> elements of export_cda.xml; low and high carry their
\* value attribute in the text field
CdaObservations ==
    { Observation(TRUE, Elem(HR), Elem("72"), TRUE, Elem("20230615143000"), Elem("20230615143000")),
      Observation(TRUE, Elem(HR), Elem("72"), TRUE, Elem("20230102080000-0500"), Absent),
      Observation(TRUE, Elem(HR), Elem(None), TRUE, Elem("2023"), Elem(None)),
      Observation(TRUE, Elem(HR), Absent, TRUE, Elem("2023"), Elem(None)),
      Observation(TRUE, Elem(HR), Elem("72"), FALSE, Absent, Absent),
      Observation(TRUE, Elem(Height), Elem("72"), TRUE, Elem("20230615143000"), Elem("20230615143000")),
      Observation(TRUE, Absent, Elem("72"), TRUE, Elem("20230615143000"), Elem("20230615143000")),
      Observation(FALSE, Absent, Absent, TRUE, Elem("20230615143000"), Elem("20230615143000")) }

(* ---------------------- session file header lines ---------------------- *)

Whitespace == {" ", "\t", "\n", "\r"}

RECURSIVE LStrip(_, _)
LStrip(s, chars) ==
    IF Len(s) > 0 /\ Ch(s, 1) \in chars THEN LStrip(SubSeq(s, 2, Len(s)), chars) ELSE s

RECURSIVE RStrip(_, _)
RStrip(s, chars) ==
    IF Len(s) > 0 /\ Ch(s, Len(s)) \in chars
    THEN RStrip(SubSeq(s, 1, Len(s) - 1), chars) ELSE s

\* str.strip() and str.strip(chars)
Strip(s) == RStrip(LStrip(s, Whitespace), Whitespace)
StripChars(s, chars) == RStrip(LStrip(s, chars), chars)

\* position of the first comma of s at or after i, 0 when there is none
RECURSIVE FindComma(_, _)
FindComma(s, i) ==
    IF i > Len(s) THEN 0
    ELSE IF Ch(s, i) = "," THEN i ELSE FindComma(s, i + 1)

\* number of leading lines read from a session file (`if i >= 10: break`)
HeaderLines == 11

\* breaking one line early (`if i >= 9`)
ReadHeaderShort(file) ==
    [i \in 1..(IF Len(file.lines) < HeaderLines - 1 THEN Len(file.lines)
               ELSE HeaderLines - 1) |-> Strip(file.lines[i])]

\* the loop `for i, line in enumerate(f)`: the stripped leading lines
ReadHeader(file) ==
    [i \in 1..(IF Len(file.lines) < HeaderLines THEN Len(file.lines) ELSE HeaderLines)
        |-> Strip(file.lines[i])]

\* the loop `for line in lines` building the metadata dict, from line i on
RECURSIVE BuildMetadata(_, _, _)
BuildMetadata(lines, i, metadata) ==
    IF i > Len(lines) THEN metadata
    ELSE LET line == lines[i]
             c    == FindComma(line, 1)
         IN  IF c = 0 THEN BuildMetadata(lines, i + 1, metadata)
             ELSE LET key   == Strip(SubSeq(line, 1, c - 1))
                      value == StripChars(Strip(SubSeq(line, c + 1, Len(line))), {"\""})
                  IN  BuildMetadata(lines, i + 1,
                         [k \in DOMAIN metadata \cup {key} |->
                             IF k = key THEN value ELSE metadata[k]])

\* metadata.get(key, default)
DictGet(metadata, key, default) ==
    IF key \in DOMAIN metadata THEN metadata[key] ELSE default

EmptyDict == [k \in {} |-> ""]

TS1 == "2023-06-15 14:30:00 +0100"
TS2 == "2023-01-02 08:00:00 +0100"

Filler(n) == [i \in 1..n |-> "Lead,Lead I"]

File(raises, lines) == [raises |-> raises, lines |-> lines]

\* electrocardiograms/ecg_*.csv files
EcgFiles ==
    { File(FALSE, <<"Name,\"Jo\"", "Recorded Date," \o TS1, "Classification,Sinus Rhythm">>),
      File(FALSE, <<" Recorded Date , \"" \o TS1 \o "\" \n", "Classification,\"Sinus Rhythm\"">>),
      File(FALSE, Filler(10) \o <<"Recorded Date," \o TS2>>),
      File(FALSE, Filler(11) \o <<"Recorded Date," \o TS2>>),
      File(FALSE, <<"Recorded Date," \o TS1, "Recorded Date,">>),
      File(FALSE, <<"Recorded Date," \o TS1, "Recorded Date," \o TS2>>),
      File(FALSE, <<"Recorded Date " \o TS1, "Classification,Sinus Rhythm">>),
      File(TRUE, <<"Recorded Date," \o TS1, "Classification,Sinus Rhythm">>) }

(* --------------------------- shared state ------------------------------ *)

MkRecord(key) ==
    [creationDate |-> key[1], startDate |-> key[2], endDate |-> key[3],
     type |-> key[4], value |-> key[5]]

KeyOf(r) == <<r.creationDate, r.startDate, r.endDate, r.type, r.value>>

\* a membership test that never finds the key
NotSeenAlways(key, seen) == TRUE

\* `if key not in seen_keys`
NotSeen(key, seen) == key \notin seen

\* counting a candidate before the membership test
AcceptCountsDuplicates(key, kind) ==
    /\ count' = count + 1
    /\ IF NotSeen(key, seen_keys)
       THEN /\ seen_keys' = seen_keys \cup {key}
            /\ records' = Append(records, MkRecord(key))
            /\ origin' = origin \cup {<<key, kind>>}
       ELSE UNCHANGED <<seen_keys, records, origin>>

\* `if key not in seen_keys: seen_keys.add(key); records.append({...}); count += 1`
Accept(key, kind) ==
    IF NotSeen(key, seen_keys)
    THEN /\ seen_keys' = seen_keys \cup {key}
         /\ records' = Append(records, MkRecord(key))
         /\ count' = count + 1
         /\ origin' = origin \cup {<<key, kind>>}
    ELSE UNCHANGED <<seen_keys, records, count, origin>>

Parsers == {"xml", "cda", "ecg"}

\* entry of a parser: `count = 0`, and `total_count = len(records)` in the
\* clinical-document and session parsers
Enter(parser, back) ==
    /\ pc' = parser
    /\ ret' = back
    /\ count' = 0
    /\ entry_len' = Len(records)
    /\ last' = [kind |-> "call", parser |-> parser]

\* `return count`; main adds the returned value to total_count
Return(v) ==
    /\ pc' = ret
    /\ retval' = v
    /\ total_count' = IF ret = "idle" THEN total_count ELSE total_count + v

(* -------------------------- parse_export_xml --------------------------- *)

XmlRecord(elem) ==
    /\ pc = "xml" /\ events < MaxEvents
    /\ LET record_type == elem.type
       IN  IF InTargetTypes(record_type)
           THEN Accept(<<Get(elem, "creationDate", ""), Get(elem, "startDate", ""),
                         Get(elem, "endDate", ""), record_type,
                         Get(elem, "value", "")>>, "Record")
           ELSE UNCHANGED <<seen_keys, records, count, origin>>
    /\ last' = [kind |-> "Record", elem |-> elem]
    /\ events' = events + 1
    /\ UNCHANGED <<pc, ret, total_count, entry_len, retval, ecg_todo, ecg_done,
                   sorted, written, output, calls, cda_error, arg, result>>

XmlWorkout(elem) ==
    /\ pc = "xml" /\ events < MaxEvents
    /\ Accept(<<Get(elem, "creationDate", ""), Get(elem, "startDate", ""),
                Get(elem, "endDate", ""), Get(elem, "workoutActivityType", ""),
                workout_value(elem)>>, "Workout")
    /\ last' = [kind |-> "Workout", elem |-> elem]
    /\ events' = events + 1
    /\ UNCHANGED <<pc, ret, total_count, entry_len, retval, ecg_todo, ecg_done,
                   sorted, written, output, calls, cda_error, arg, result>>

\* an element with any other tag
XmlOther ==
    /\ pc = "xml" /\ events < MaxEvents
    /\ last' = [kind |-> "other"]
    /\ events' = events + 1
    /\ UNCHANGED <<pc, ret, records, seen_keys, total_count, count, entry_len,
                   retval, ecg_todo, ecg_done, sorted, written, output, origin,
                   calls, cda_error, arg, result>>

\* end of the document: `return count`
XmlReturn ==
    /\ pc = "xml"
    /\ Return(count)
    /\ last' = [kind |-> "return", parser |-> "xml"]
    /\ UNCHANGED <<ret, records, seen_keys, count, entry_len, ecg_todo, ecg_done,
                   sorted, written, output, origin, events, calls, cda_error, arg, result>>

\* the parse error caught the way parse_export_cda_xml catches it
XmlParseErrorCaught ==
    /\ pc = "xml"
    /\ Return(count)
    /\ last' = [kind |-> "raise", parser |-> "xml"]
    /\ UNCHANGED <<ret, records, seen_keys, count, entry_len, ecg_todo, ecg_done,
                   sorted, written, output, origin, events, calls, cda_error, arg,
                   result>>

\* ET.ParseError out of iterparse: nothing catches it in parse_export_xml
\* nor in main; the free-order caller gets control back
XmlParseError ==
    /\ pc = "xml"
    /\ pc' = IF ret = "idle" THEN "idle" ELSE "raised"
    /\ last' = [kind |-> "raise", parser |-> "xml"]
    /\ UNCHANGED <<ret, records, seen_keys, total_count, count, entry_len, retval,
                   ecg_todo, ecg_done, sorted, written, output, origin, events,
                   calls, cda_error, arg, result>>

(* ------------------------ parse_export_cda_xml ------------------------- *)

CdaObservation(elem) ==
    /\ pc = "cda" /\ events < MaxEvents
    /\ IF elem.text /\ elem.type.present /\ InTargetTypes(elem.type.text)
       THEN LET record_type == elem.type.text
                value == IF elem.value.present THEN elem.value.text ELSE ""
                start_date == IF elem.effectiveTime /\ elem.low.present
                              THEN format_cda_date(Get(elem.low, "text", "")) ELSE ""
                end_date == IF elem.effectiveTime /\ elem.high.present
                            THEN format_cda_date(Get(elem.high, "text", "")) ELSE ""
                creation_date == start_date
            IN  Accept(<<creation_date, start_date, end_date, record_type, value>>,
                       "observation")
       ELSE UNCHANGED <<seen_keys, records, count, origin>>
    /\ last' = [kind |-> "observation", elem |-> elem]
    /\ events' = events + 1
    /\ UNCHANGED <<pc, ret, total_count, entry_len, retval, ecg_todo, ecg_done,
                   sorted, written, output, calls, cda_error, arg, result>>

CdaOther ==
    /\ pc = "cda" /\ events < MaxEvents
    /\ last' = [kind |-> "other"]
    /\ events' = events + 1
    /\ UNCHANGED <<pc, ret, records, seen_keys, total_count, count, entry_len,
                   retval, ecg_todo, ecg_done, sorted, written, output, origin,
                   calls, cda_error, arg, result>>

CdaReturn ==
    /\ pc = "cda"
    /\ Return(count)
    /\ last' = [kind |-> "return", parser |-> "cda"]
    /\ UNCHANGED <<ret, records, seen_keys, count, entry_len, ecg_todo, ecg_done,
                   sorted, written, output, origin, events, calls, cda_error, arg, result>>

\* the parse error left uncaught
CdaParseErrorUncaught ==
    /\ pc = "cda"
    /\ pc' = IF ret = "idle" THEN "idle" ELSE "raised"
    /\ last' = [kind |-> "ParseError", parser |-> "cda"]
    /\ cda_error' = count
    /\ UNCHANGED <<ret, records, seen_keys, total_count, count, entry_len, retval,
                   ecg_todo, ecg_done, sorted, written, output, origin, events,
                   calls, arg, result>>

\* `except ET.ParseError`: warn, then fall through to `return count`
CdaParseError ==
    /\ pc = "cda"
    /\ Return(count)
    /\ last' = [kind |-> "ParseError", parser |-> "cda"]
    /\ cda_error' = count
    /\ UNCHANGED <<ret, records, seen_keys, count, entry_len, ecg_todo, ecg_done,
                   sorted, written, output, origin, events, calls, arg, result>>

(* --------------------------- parse_ecg_files --------------------------- *)

\* one iteration of `for filepath in ecg_files`
EcgFile(file) ==
    /\ pc = "ecg" /\ file \in ecg_todo
    /\ IF file.raises
       THEN UNCHANGED <<seen_keys, records, count, origin>>
       ELSE LET metadata == BuildMetadata(ReadHeader(file), 1, EmptyDict)
                recorded_date == DictGet(metadata, "Recorded Date", "")
                classification == DictGet(metadata, "Classification", "")
            IN  IF Truthy(recorded_date)
                THEN Accept(<<recorded_date, recorded_date, recorded_date, "ECG",
                              classification>>, "ECG")
                ELSE UNCHANGED <<seen_keys, records, count, origin>>
    /\ ecg_todo' = ecg_todo \ {file}
    /\ ecg_done' = ecg_done \cup {file}
    /\ last' = [kind |-> "file", elem |-> file]
    /\ events' = events + 1
    /\ UNCHANGED <<pc, ret, total_count, entry_len, retval, sorted, written,
                   output, calls, cda_error, arg, result>>

EcgReturn ==
    /\ pc = "ecg" /\ ecg_todo = {}
    /\ Return(count)
    /\ last' = [kind |-> "return", parser |-> "ecg"]
    /\ UNCHANGED <<ret, records, seen_keys, count, entry_len, ecg_todo, ecg_done,
                   sorted, written, output, origin, events, calls, cda_error, arg, result>>

\* glob.glob(.../ecg_*.csv): the files of the directory, in any order
Glob(files) ==
    /\ files \in SUBSET EcgFiles
    /\ Cardinality(files) <= MaxFiles
    /\ Cardinality(files) <= MaxEvents - events
    /\ ecg_todo' = files
    /\ ecg_done' = {}

(* -------------------------------- main --------------------------------- *)

\* sorting in descending order
KeyBeforeDescending(x, y) == StrLess(y.startDate, x.startDate)

\* the order of `key=lambda x: x['startDate']`
KeyBefore(x, y) == StrLess(x.startDate, y.startDate)

RECURSIVE InsertByStartDate(_, _)
InsertByStartDate(s, x) ==
    IF Len(s) = 0 THEN <<x>>
    ELSE IF KeyBefore(x, s[Len(s)])
         THEN Append(InsertByStartDate(SubSeq(s, 1, Len(s) - 1), x), s[Len(s)])
         ELSE Append(s, x)

\* records.sort(key=lambda x: x['startDate']): stable, ascending
RECURSIVE SortByStartDate(_)
SortByStartDate(s) ==
    IF Len(s) = 0 THEN <<>>
    ELSE InsertByStartDate(SortByStartDate(SubSeq(s, 1, Len(s) - 1)), s[Len(s)])

\* the csv writer writes None as the empty string
CsvField(v) == IF v = None THEN "" ELSE v

CsvRow(r) ==
    <<CsvField(r.creationDate), CsvField(r.startDate), CsvField(r.endDate),
      CsvField(r.type), CsvField(r.value)>>

MainXml ==
    /\ pc = "main_xml"
    /\ \E exists \in BOOLEAN :
          IF exists
          THEN Enter("xml", "main_cda")
          ELSE /\ pc' = "main_cda"
               /\ last' = [kind |-> "missing", parser |-> "xml"]
               /\ UNCHANGED <<ret, count, entry_len>>
    /\ UNCHANGED <<records, seen_keys, total_count, retval, ecg_todo, ecg_done,
                   sorted, written, output, origin, events, calls, cda_error, arg, result>>

MainCda ==
    /\ pc = "main_cda"
    /\ \E exists \in BOOLEAN :
          IF exists
          THEN Enter("cda", "main_ecg")
          ELSE /\ pc' = "main_ecg"
               /\ last' = [kind |-> "missing", parser |-> "cda"]
               /\ UNCHANGED <<ret, count, entry_len>>
    /\ UNCHANGED <<records, seen_keys, total_count, retval, ecg_todo, ecg_done,
                   sorted, written, output, origin, events, calls, cda_error, arg, result>>

MainEcg ==
    /\ pc = "main_ecg"
    /\ \E exists \in BOOLEAN :
          IF exists
          THEN /\ Enter("ecg", "main_sort")
               /\ \E files \in SUBSET EcgFiles : Glob(files)
          ELSE /\ pc' = "main_sort"
               /\ last' = [kind |-> "missing", parser |-> "ecg"]
               /\ UNCHANGED <<ret, count, entry_len, ecg_todo, ecg_done>>
    /\ UNCHANGED <<records, seen_keys, total_count, retval,
                   sorted, written, output, origin, events, calls, cda_error, arg, result>>

MainSort ==
    /\ pc = "main_sort"
    /\ records' = SortByStartDate(records)
    /\ sorted' = TRUE
    /\ pc' = "main_write"
    /\ last' = [kind |-> "sort"]
    /\ UNCHANGED <<ret, seen_keys, total_count, count, entry_len, retval, ecg_todo,
                   ecg_done, written, output, origin, events, calls, cda_error, arg, result>>

MainWrite ==
    /\ pc = "main_write"
    /\ output' = [i \in 1..Len(records) |-> CsvRow(records[i])]
    /\ written' = TRUE
    /\ pc' = "done"
    /\ last' = [kind |-> "write"]
    /\ UNCHANGED <<ret, records, seen_keys, total_count, count, entry_len, retval,
                   ecg_todo, ecg_done, sorted, origin, events, calls, cda_error, arg, result>>

(* ---------- a caller that invokes the parsers in any order ------------- *)

CallXml ==
    /\ pc = "idle" /\ calls < MaxCalls
    /\ Enter("xml", "idle")
    /\ calls' = calls + 1
    /\ UNCHANGED <<records, seen_keys, total_count, retval, ecg_todo, ecg_done,
                   sorted, written, output, origin, events, cda_error, arg, result>>

CallCda ==
    /\ pc = "idle" /\ calls < MaxCalls
    /\ Enter("cda", "idle")
    /\ calls' = calls + 1
    /\ UNCHANGED <<records, seen_keys, total_count, retval, ecg_todo, ecg_done,
                   sorted, written, output, origin, events, cda_error, arg, result>>

CallEcg ==
    /\ pc = "idle" /\ calls < MaxCalls
    /\ Enter("ecg", "idle")
    /\ \E files \in SUBSET EcgFiles : Glob(files)
    /\ calls' = calls + 1
    /\ UNCHANGED <<records, seen_keys, total_count, retval,
                   sorted, written, output, origin, events, cda_error, arg, result>>

(* ------------------------- specifications ------------------------------ *)

InitState(start, inputs) ==
    /\ pc = start
    /\ ret = "none"
    /\ records = <<>>
    /\ seen_keys = {}
    /\ total_count = 0
    /\ count = 0
    /\ entry_len = 0
    /\ retval = 0
    /\ ecg_todo = {}
    /\ ecg_done = {}
    /\ sorted = FALSE
    /\ written = FALSE
    /\ output = <<>>
    /\ origin = {}
    /\ last = [kind |-> "init"]
    /\ events = 0
    /\ calls = 0
    /\ cda_error = -1
    /\ arg \in inputs
    /\ result = None

ParserStep ==
    \/ \E elem \in RecordElems : XmlRecord(elem)
    \/ \E elem \in WorkoutElems : XmlWorkout(elem)
    \/ XmlOther
    \/ XmlReturn
    \/ XmlParseError
    \/ \E elem \in CdaObservations : CdaObservation(elem)
    \/ CdaOther
    \/ CdaReturn
    \/ CdaParseError
    \/ \E file \in EcgFiles : EcgFile(file)
    \/ EcgReturn

\* main(): records = [], seen_keys = set(), total_count = 0
Init == InitState("main_xml", {None})

Next == MainXml \/ MainCda \/ MainEcg \/ MainSort \/ MainWrite \/ ParserStep

Spec == Init /\ [][Next]_vars

InitCalls == InitState("idle", {None})

NextCalls == CallXml \/ CallCda \/ CallEcg \/ ParserStep

SpecCalls == InitCalls /\ [][NextCalls]_vars

(* ---------------- the two value functions on their own ----------------- *)

\* raw effectiveTime values: YYYYMMDDHHMMSS[zone] built from fields that
\* are in and out of range, and short strings
DateInputs ==
    { y \o mo \o d \o h \o mi \o sec \o tz :
        y \in {"2023", "2024", "0000", "20x3"}, mo \in {"02", "06", "13"},
        d \in {"15", "29", "31", " 5", "00"}, h \in {"14", "24"},
        mi \in {"30", "60"}, sec \in {"00", "60"}, tz \in {"", "-0500", " "} }
    \cup {"", "2023", "2023061514300", "202306151430-0500"}

WorkoutInputs ==
    { Workout(Running, d, du, e, eu) :
        d \in {None, "", "30", "45.5"}, du \in {None, "", "min", "hr"},
        e \in {None, "", "250"}, eu \in {None, "Cal", "kJ"} }

FormatCdaDate ==
    /\ pc = "format_cda_date"
    /\ result' = format_cda_date(arg)
    /\ pc' = "formatted"
    /\ UNCHANGED <<ret, records, seen_keys, total_count, count, entry_len, retval,
                   ecg_todo, ecg_done, sorted, written, output, origin, last,
                   events, calls, cda_error, arg>>

InitDate == InitState("format_cda_date", DateInputs)

SpecDate == InitDate /\ [][FormatCdaDate]_vars

WorkoutValue ==
    /\ pc = "workout_value"
    /\ result' = workout_value(arg)
    /\ pc' = "valued"
    /\ UNCHANGED <<ret, records, seen_keys, total_count, count, entry_len, retval,
                   ecg_todo, ecg_done, sorted, written, output, origin, last,
                   events, calls, cda_error, arg>>

InitWorkout == InitState("workout_value", WorkoutInputs)

SpecWorkout == InitWorkout /\ [][WorkoutValue]_vars

(* ------------------------------ claims --------------------------------- *)

Keys(recs) == { KeyOf(recs[i]) : i \in 1..Len(recs) }

Occurrences(seq, x) == Cardinality({ i \in 1..Len(seq) : seq[i] = x })

IsPermutation(s, t) ==
    /\ Len(s) = Len(t)
    /\ \A i \in 1..Len(s) : Occurrences(s, s[i]) = Occurrences(t, s[i])

\* C1: under any sequence of parser calls on the shared collection and
\* index, no two entries of records have the same identity 5-tuple, and
\* seen_keys is exactly the set of identity tuples of the entries of records.
C1_UniqueKeys ==
    /\ \A i, j \in 1..Len(records) :
          i # j => KeyOf(records[i]) # KeyOf(records[j])
    /\ seen_keys = Keys(records)
    /\ Cardinality(seen_keys) = Len(records)

\* a clinical-document observation of an allowed type was rejected as a
\* duplicate of a record an earlier call had put in the collection
C1_Witness ==
    /\ pc = "cda" /\ last.kind = "observation" /\ count = 0
    /\ last.elem.text /\ last.elem.type.present /\ last.elem.type.text \in TARGET_TYPES
    /\ Len(records) >= 1
    /\ \E k \in seen_keys : <<k, "Record">> \in origin

\* C2: the written file has no two data rows equal in all five columns.
C2_DistinctRows ==
    written => \A i, j \in 1..Len(output) : i # j => output[i] # output[j]

SortedByStartDate(recs) ==
    \A i, j \in 1..Len(recs) : i < j => ~StrLess(recs[j].startDate, recs[i].startDate)

\* C3: the driver's sort leaves records in non-decreasing startDate string
\* order and as a permutation of the merged collection, and the written
\* rows are in that order.
C3_SortedPermutation ==
    [][ /\ pc = "main_sort" =>
              SortedByStartDate(records') /\ IsPermutation(records, records')
        /\ written' =>
              \A i, j \in 1..Len(output') :
                  i < j => ~StrLess(output'[j][2], output'[i][2]) ]_vars

\* the sort moved a session record in front of an export.xml record
C3_Witness ==
    /\ sorted /\ written /\ Len(records) >= 2
    /\ <<KeyOf(records[1]), "ECG">> \in origin
    /\ <<KeyOf(records[2]), "Record">> \in origin
    /\ records[1].startDate # records[2].startDate

\* C4: a parser call that returns, returns the number of records it
\* appended; at the end of a run total_count equals the length of records
\* and the number of rows written.
C4_Counts ==
    [][ /\ (pc \in Parsers /\ pc' \notin Parsers \cup {"raised"}) =>
              retval' = Len(records') - entry_len
        /\ pc' = "done" =>
              total_count' = Len(records') /\ Len(output') = Len(records') ]_vars

\* a finished run in which a duplicate was rejected and the clinical
\* document stopped on a parse error after accepting an observation
C4_Witness ==
    /\ pc = "done" /\ events = MaxEvents
    /\ total_count >= 2 /\ total_count < events
    /\ cda_error >= 1
    /\ \E k \in seen_keys : <<k, "observation">> \in origin

ObservationType(elem) ==
    IF elem.text /\ elem.type.present THEN elem.type.text ELSE None

\* C5: a Record or observation whose type is not in TARGET_TYPES changes
\* neither records, seen_keys nor count; a Workout is accepted under its
\* workoutActivityType whatever that is; every record has a type in
\* TARGET_TYPES, or came from a Workout, or has type "ECG".
C5_AllowList ==
    [][ /\ (events' = events + 1 /\ last'.kind = "Record"
              /\ last'.elem.type \notin TARGET_TYPES) =>
              UNCHANGED <<records, seen_keys, count>>
        /\ (events' = events + 1 /\ last'.kind = "observation"
              /\ ObservationType(last'.elem) \notin TARGET_TYPES) =>
              UNCHANGED <<records, seen_keys, count>>
        /\ (events' = events + 1 /\ last'.kind = "Workout") =>
              \E i \in 1..Len(records') :
                  /\ records'[i].type = Get(last'.elem, "workoutActivityType", "")
                  /\ records'[i].startDate = Get(last'.elem, "startDate", "")
                  /\ KeyOf(records'[i]) \in seen_keys'
        /\ \A i \in 1..Len(records') :
              \/ records'[i].type \in TARGET_TYPES
              \/ <<KeyOf(records'[i]), "Workout">> \in origin'
              \/ records'[i].type = "ECG" ]_vars

\* a Workout of a type outside the allow-list is in the collection and a
\* Record of that same type has just been dropped
C5_Witness ==
    /\ last.kind = "Record" /\ last.elem.type = Height
    /\ Len(records) = 1 /\ records[1].type = Height /\ count = 1
    /\ <<KeyOf(records[1]), "Workout">> \in origin

Rows == { output[i] : i \in 1..Len(output) }

\* C6: a parse failure of the clinical document is caught: the parser
\* keeps the N records it had accepted and returns N to main; the run does
\* not abort but goes on to the session files, the sort and the write, and
\* the output written holds those records.
C6_CdaParseErrorTolerated ==
    /\ [][ (pc = "cda" /\ last'.kind = "ParseError") =>
              /\ pc' = "main_ecg"
              /\ records' = records /\ seen_keys' = seen_keys
              /\ retval' = count /\ retval' = Len(records) - entry_len
              /\ total_count' = total_count + count
              /\ cda_error' = count ]_vars
    /\ [](cda_error >= 0 =>
              /\ pc \in {"main_ecg", "ecg", "main_sort", "main_write", "done"}
              /\ Cardinality({ k \in seen_keys : <<k, "observation">> \in origin })
                    = cda_error
              /\ pc = "done" =>
                    /\ sorted /\ written
                    /\ \A k \in seen_keys :
                          <<k, "observation">> \in origin =>
                              CsvRow(MkRecord(k)) \in Rows)

\* a run finished whose clinical document had failed after one of its
\* observations was accepted
C6_Witness ==
    /\ pc = "done" /\ written /\ cda_error >= 1
    /\ \E k \in seen_keys :
          <<k, "observation">> \in origin /\ CsvRow(MkRecord(k)) \in Rows

\* the `key,value` entries among the first 11 lines of a session file
LeadingIndexes(file) == { i \in 1..Len(file.lines) : i <= 11 }

EntryKey(file, i) ==
    LET line == Strip(file.lines[i])
    IN  Strip(SubSeq(line, 1, FindComma(line, 1) - 1))

EntryValue(file, i) ==
    LET line == Strip(file.lines[i])
    IN  StripChars(Strip(SubSeq(line, FindComma(line, 1) + 1, Len(line))), {"\""})

Entries(file, key) ==
    { i \in LeadingIndexes(file) :
        FindComma(Strip(file.lines[i]), 1) # 0 /\ EntryKey(file, i) = key }

EntryValues(file, key) == { EntryValue(file, i) : i \in Entries(file, key) }

LastEntryValue(file, key) ==
    LET es == Entries(file, key)
    IN  IF es = {} THEN ""
        ELSE EntryValue(file, CHOOSE i \in es : \A j \in es : j <= i)

EcgKey(ts, classification) == <<ts, ts, ts, "ECG", classification>>

\* what the first 11 lines of each session file say
Header ==
    [file \in EcgFiles |->
        [dates |-> EntryValues(file, "Recorded Date"),
         classes |-> EntryValues(file, "Classification"),
         lastDate |-> LastEntryValue(file, "Recorded Date"),
         lastClass |-> LastEntryValue(file, "Classification")]]

\* C7 as stated: a file that raises adds nothing and the loop goes on; a
\* readable file with a non-empty Recorded Date entry among its first 11
\* lines puts (ts, ts, ts, "ECG", classification) in the collection; a file
\* without a Recorded Date entry adds nothing.
C7_AnyRecordedDateEntry ==
    [][ (events' = events + 1 /\ last'.kind = "file") =>
          LET file == last'.elem
              h    == Header[file]
          IN  /\ pc' = "ecg" /\ ecg_todo' = ecg_todo \ {file}
              /\ file.raises => UNCHANGED <<records, seen_keys, count>>
              /\ (~file.raises /\ h.dates \ {""} # {}) =>
                    \E ts \in h.dates \ {""} :
                      \E cl \in h.classes \cup {""} :
                         /\ h.classes = {} => cl = ""
                         /\ EcgKey(ts, cl) \in Keys(records')
              /\ (~file.raises /\ h.dates = {}) =>
                    UNCHANGED <<records, seen_keys, count>> ]_vars

\* C7 amended: the entry that counts is the last one with that name among
\* the first 11 lines.
C7_LastRecordedDateEntry ==
    [][ (events' = events + 1 /\ last'.kind = "file") =>
          LET file == last'.elem
              h    == Header[file]
          IN  /\ pc' = "ecg" /\ ecg_todo' = ecg_todo \ {file}
              /\ file.raises => UNCHANGED <<records, seen_keys, count>>
              /\ (~file.raises /\ h.lastDate # "") =>
                    /\ EcgKey(h.lastDate, h.lastClass) \in Keys(records')
                    /\ EcgKey(h.lastDate, h.lastClass) \in seen_keys'
              /\ (~file.raises /\ h.dates = {}) =>
                    UNCHANGED <<records, seen_keys, count>> ]_vars

\* a file that raises was visited, then a file whose Recorded Date is on
\* its 11th line and which has no Classification was visited and accepted
C7_Witness ==
    /\ pc = "ecg" /\ last.kind = "file" /\ ~last.elem.raises
    /\ Len(last.elem.lines) = 11
    /\ \E file \in ecg_done : file.raises
    /\ EcgKey(TS2, "") \in seen_keys /\ count = 1

ExpectedWorkoutValue(elem) ==
    LET hasDuration == elem.duration # None /\ elem.duration # ""
        hasEnergy == elem.totalEnergyBurned # None /\ elem.totalEnergyBurned # ""
        du == IF elem.durationUnit = None THEN "min" ELSE elem.durationUnit
        eu == IF elem.totalEnergyBurnedUnit = None THEN "Cal"
              ELSE elem.totalEnergyBurnedUnit
        dpart == "duration:" \o elem.duration \o " " \o du
        epart == "calories:" \o elem.totalEnergyBurned \o " " \o eu
    IN  CASE hasDuration /\ hasEnergy -> dpart \o "; " \o epart
          [] hasDuration /\ ~hasEnergy -> dpart
          [] ~hasDuration /\ hasEnergy -> epart
          [] OTHER -> ""

\* C8: the workout value is "duration:<d> <du>; calories:<e> <eu>",
\* "duration:<d> <du>", "calories:<e> <eu>" or "" according to which of
\* duration and totalEnergyBurned are present and non-empty, the units
\* defaulting to "min" and "Cal" when absent.
C8_WorkoutValue ==
    pc = "valued" => result = ExpectedWorkoutValue(arg)

C8_Witness ==
    /\ pc = "valued"
    /\ arg = Workout(Running, "30", "min", "250", "Cal")
    /\ result = "duration:30 min; calories:250 Cal"

ValidTimestamp(b) ==
    /\ AllDigits(b)
    /\ Num4(SubSeq(b, 1, 4)) >= 1
    /\ Num2(SubSeq(b, 5, 6)) \in 1..12
    /\ Num2(SubSeq(b, 7, 8)) \in 1..DaysInMonth(Num4(SubSeq(b, 1, 4)), Num2(SubSeq(b, 5, 6)))
    /\ Num2(SubSeq(b, 9, 10)) \in 0..23
    /\ Num2(SubSeq(b, 11, 12)) \in 0..59
    /\ Num2(SubSeq(b, 13, 14)) \in 0..59

ClaimedFormat(s) ==
    IF s = "" THEN ""
    ELSE IF Len(s) >= 14 /\ ValidTimestamp(SubSeq(s, 1, 14))
    THEN SubSeq(s, 1, 4) \o "-" \o SubSeq(s, 5, 6) \o "-" \o SubSeq(s, 7, 8) \o " " \o
         SubSeq(s, 9, 10) \o ":" \o SubSeq(s, 11, 12) \o ":" \o SubSeq(s, 13, 14) \o
         (IF Len(s) > 14 THEN " " \o SubSeq(s, 15, Len(s)) ELSE "")
    ELSE s

\* C9: format_cda_date gives "" for "", "YYYY-MM-DD HH:MM:SS[ rest]" when
\* the first 14 characters are a valid YYYYMMDDHHMMSS timestamp, and its
\* argument unchanged in every other case.
C9_FormatCdaDate ==
    pc = "formatted" => result = ClaimedFormat(arg)

\* C10: a parse failure of export.xml is not caught: the call returns no
\* count, the records accepted so far stay in records and seen_keys, and the
\* run ends there, with no later parser, no sort and no output file.
C10_XmlParseErrorFatal ==
    [][ /\ (pc = "xml" /\ last'.kind = "raise") =>
              /\ pc' = "raised"
              /\ UNCHANGED <<records, seen_keys, retval, total_count>>
        /\ pc # "raised"
        /\ pc' = "raised" =>
              /\ ~sorted' /\ ~written' /\ output' = <<>>
              /\ \A k \in seen_keys' :
                    <<k, "Record">> \in origin' \/ <<k, "Workout">> \in origin' ]_vars

\* export.xml failed after two of its elements were accepted
C10_Witness ==
    /\ pc = "raised" /\ Len(records) = 2 /\ count = 2
    /\ Cardinality(seen_keys) = 2

====
